---------------------------- MODULE Spec2Model ----------------------------
(***************************************************************************)
(* A model of arxiv-search's classic-API phrase translator                 *)
(* (search/services/index/classic.py), of the highlight-safe snippet       *)
(* extractor (search/services/index/highlighting, known through its tests) *)
(* and of the fulltext client (search/services/fulltext.py).               *)
(*                                                                         *)
(* Three specifications share the module:                                  *)
(*   Spec          - a Phrase is built token by token and translated;      *)
(*   SpecHighlight - a text is built and truncated safely;                 *)
(*   SpecFulltext  - one retrieve() call runs against an HTTP endpoint.    *)
(***************************************************************************)
EXTENDS Integers, Sequences, FiniteSets

VARIABLES
    phrase, pc, input, result,          \* the phrase translator
    text, hpc, hreq, hres,              \* the snippet extractor
    fpc, session, docid, reply, data, outcome, sent   \* the fulltext client

tvars == <<phrase, pc, input, result>>
hvars == <<text, hpc, hreq, hres>>
fvars == <<fpc, session, docid, reply, data, outcome, sent>>
vars == <<tvars, hvars, fvars>>

(***************************************************************************)
(* Bounds of the model.                                                    *)
(***************************************************************************)
\* Largest Phrase built: atoms (Operator, Term, stray value) plus nested tuples.
MaxSize == 5
\* Longest text truncated, in characters.
MaxLen == 4
\* Largest tolerance passed to computeSafeEnd.
MaxTol == 2

Max(S) == CHOOSE x \in S : \A y \in S : y <= x
Min(S) == CHOOSE x \in S : \A y \in S : x <= y

(***************************************************************************)
(* Domain values (search.domain: Operator, Field, Term, Phrase).           *)
(***************************************************************************)
Operators == {"AND", "OR", "ANDNOT"}

\* The Fields FIELD_TERM_MAPPING has a builder for.
MappedFields ==
    {"Author", "Comment", "Identifier", "JournalReference", "ReportNumber",
     "SubjectCategory", "Title", "All"}

\* A Field of the enumeration that the mapping does not list.
UnmappedFields == {"Abstract"}

\* Python values that occur as Phrase tokens: an Operator, a Field, a str, a tuple.
Op(o)   == [k |-> "op",    v |-> o,  items |-> <<>>]
Fld(f)  == [k |-> "field", v |-> f,  items |-> <<>>]
Str(s)  == [k |-> "str",   v |-> s,  items |-> <<>>]
Tup(s)  == [k |-> "tuple", v |-> "", items |-> s]

Term(f, s) == Tup(<<Fld(f), Str(s)>>)

(***************************************************************************)
(* Query algebra: elasticsearch_dsl's Q objects, as a tree of combinators  *)
(* over leaf match nodes; Q() is the match-everything identity.            *)
(***************************************************************************)
MatchAll   == [q |-> "match_all",  f |-> "", v |-> "", args |-> <<>>]
MatchNone  == [q |-> "match_none", f |-> "", v |-> "", args |-> <<>>]
Leaf(f, s) == [q |-> "leaf", f |-> f,  v |-> s,  args |-> <<>>]
And(a, b)  == [q |-> "and",  f |-> "", v |-> "", args |-> <<a, b>>]
Or(a, b)   == [q |-> "or",   f |-> "", v |-> "", args |-> <<a, b>>]
Not(a)     == [q |-> "not",  f |-> "", v |-> "", args |-> <<a>>]

\* A raised exception: its class and the value it carries.
Error(cls, val) == [q |-> "error", f |-> cls, v |-> "", args |-> <<val>>]
IsError(r) == r.q = "error"
NoResult == [q |-> "none", f |-> "", v |-> "", args |-> <<>>]

\* a & b (Q.__and__): MatchAll returns the other operand, MatchNone itself.
QAnd(a, b) ==
    IF a.q = "match_all" THEN b
    ELSE IF b.q = "match_all" THEN a
    ELSE IF a.q = "match_none" \/ b.q = "match_none" THEN MatchNone
    ELSE And(a, b)

\* a | b (Q.__or__): MatchAll returns itself, MatchNone the other operand.
QOr(a, b) ==
    IF a.q = "match_all" \/ b.q = "match_all" THEN MatchAll
    ELSE IF a.q = "match_none" THEN b
    ELSE IF b.q = "match_none" THEN a
    ELSE Or(a, b)

\* ~a (Q.__invert__): MatchAll and MatchNone invert into each other.
QNot(a) ==
    IF a.q = "match_all" THEN MatchNone
    ELSE IF a.q = "match_none" THEN MatchAll
    ELSE Not(a)

\* Whether a document (the set of leaf conditions it satisfies) matches a Query.
RECURSIVE Eval(_, _)
Eval(qq, doc) ==
    CASE qq.q = "match_all"  -> TRUE
      [] qq.q = "match_none" -> FALSE
      [] qq.q = "leaf"       -> qq \in doc
      [] qq.q = "and"        -> Eval(qq.args[1], doc) /\ Eval(qq.args[2], doc)
      [] qq.q = "or"         -> Eval(qq.args[1], doc) \/ Eval(qq.args[2], doc)
      [] qq.q = "not"        -> ~Eval(qq.args[1], doc)

(***************************************************************************)
(* classic.py: _term_to_query and _phrase_to_query.                        *)
(***************************************************************************)
\* A lookup that falls back to a generic builder for a Field without an entry.
TermToQuery_DefaultBuilder(term) == Leaf(term[1].v, term[2].v)

\* FIELD_TERM_MAPPING[field](val): the builder's leaf, or KeyError(field).
TermToQuery(term) ==
    LET field == term[1]
        val   == term[2]
    IN  IF field.k = "field" /\ field.v \in MappedFields
        THEN Leaf(field.v, val.v)
        ELSE Error("KeyError", field)

\* A slip in the base case: the length of a Phrase (operand, Operator, operand)
\* where the length of a Term is meant.
IsBaseCase_WrongLength(p) == p[1].k = "field" /\ Len(p) = 3

\* isinstance(phrase[0], Field) and len(phrase) == 2
IsBaseCase(p) == p[1].k = "field" /\ Len(p) = 2

\* isinstance(token[0], Operator) or len(token) == 3
IsNestedPhrase(items) == items[1].k = "op" \/ Len(items) = 3

\* A scan that starts with OR as its current operator.
DefaultOperator_Or == "OR"

\* current_operator: Operator = Operator.AND
DefaultOperator == "AND"

\* The if/elif chain that folds phrase_q into q.
Combine(current_operator, q, phrase_q) ==
    CASE current_operator = "AND"    -> QAnd(q, phrase_q)
      [] current_operator = "OR"     -> QOr(q, phrase_q)
      [] current_operator = "ANDNOT" -> QAnd(q, QNot(phrase_q))
      [] OTHER                       -> q

\* A loop that rejects what is neither an Operator nor a tuple.
OtherToken_Rejected(token, q) == Error("ValueError", token)

\* What the loop does with a token that is neither an Operator nor a tuple:
\* no branch of the if/elif matches, so nothing happens.
OtherToken(token, q) == q

RECURSIVE PhraseToQuery(_), Scan(_, _, _, _)

\* The elif isinstance(token, tuple) branch up to the assignment of phrase_q.
TupleToQuery(token) ==
    IF Len(token.items) = 0 THEN Error("IndexError", token)
    ELSE IF IsNestedPhrase(token.items) THEN PhraseToQuery(token.items)
    ELSE IF Len(token.items) = 2 THEN TermToQuery(token.items)
    ELSE Error("ValueError", token)

\* The for loop from token i on, with accumulator q and current operator cur.
Scan(p, i, q, cur) ==
    IF i > Len(p) THEN q
    ELSE LET token == p[i] IN
         IF token.k = "op" THEN Scan(p, i + 1, q, token.v)
         ELSE IF token.k = "tuple"
              THEN LET phrase_q == TupleToQuery(token) IN
                   IF IsError(phrase_q) THEN phrase_q
                   ELSE Scan(p, i + 1, Combine(cur, q, phrase_q), cur)
              ELSE LET q2 == OtherToken(token, q) IN
                   IF IsError(q2) THEN q2 ELSE Scan(p, i + 1, q2, cur)

\* The general case: q = Q(), current_operator = AND, then the loop.
GeneralCase(p) == Scan(p, 1, MatchAll, DefaultOperator)

PhraseToQuery(p) ==
    IF Len(p) = 0 THEN Error("IndexError", Tup(p))
    ELSE IF IsBaseCase(p) THEN TermToQuery(p)
    ELSE GeneralCase(p)

(***************************************************************************)
(* The Phrases translated: built by the upstream parser token by token.    *)
(***************************************************************************)
Values == {"a"}
TermFields == {"Title", "Author"} \cup UnmappedFields

\* A tuple token that is a Term: a pair led by a Field.
IsTermItems(p) == Len(p) = 2 /\ p[1].k = "field"
IsTerm(t) == t.k = "tuple" /\ IsTermItems(t.items)

\* An Operator, a Term and a stray value count one; a nested tuple one more
\* than its tokens.
RECURSIVE Size(_)
SizeOfToken(t) == IF t.k = "tuple" /\ ~IsTerm(t) THEN 1 + Size(t.items) ELSE 1
Size(s) == IF Len(s) = 0 THEN 0 ELSE SizeOfToken(Head(s)) + Size(Tail(s))

TranslatorInit ==
    /\ phrase = <<>>
    /\ pc = "build"
    /\ input = <<>>
    /\ result = NoResult

AppendOperator(o) ==
    /\ pc = "build"
    /\ Size(phrase) < MaxSize
    /\ phrase' = Append(phrase, Op(o))
    /\ UNCHANGED <<pc, input, result, hvars, fvars>>

AppendTerm(f, s) ==
    /\ pc = "build"
    /\ Size(phrase) < MaxSize
    /\ phrase' = Append(phrase, Term(f, s))
    /\ UNCHANGED <<pc, input, result, hvars, fvars>>

\* A bare str where a Term or a Phrase belongs.
AppendStray(s) ==
    /\ pc = "build"
    /\ Size(phrase) < MaxSize
    /\ phrase' = Append(phrase, Str(s))
    /\ UNCHANGED <<pc, input, result, hvars, fvars>>

\* The last n tokens become one nested tuple.
Nest(n) ==
    /\ pc = "build"
    /\ Size(phrase) < MaxSize
    /\ n \in 1 .. Len(phrase)
    /\ LET m == Len(phrase) - n IN
       phrase' = Append(SubSeq(phrase, 1, m),
                        Tup(SubSeq(phrase, m + 1, Len(phrase))))
    /\ UNCHANGED <<pc, input, result, hvars, fvars>>

\* classic_search: dsl_query = _phrase_to_query(query.phrase), the query's
\* phrase being the tuple of the tokens built.
Translate ==
    /\ pc = "build"
    /\ input' = phrase
    /\ result' = PhraseToQuery(phrase)
    /\ pc' = "done"
    /\ UNCHANGED <<phrase, hvars, fvars>>

\* The same call when the query's phrase is a single Term, passed as it is.
TranslateTerm ==
    /\ pc = "build"
    /\ Len(phrase) = 1 /\ IsTerm(phrase[1])
    /\ input' = phrase[1].items
    /\ result' = PhraseToQuery(phrase[1].items)
    /\ pc' = "done"
    /\ UNCHANGED <<phrase, hvars, fvars>>

TranslatorNext ==
    \/ \E o \in Operators : AppendOperator(o)
    \/ \E f \in TermFields, s \in Values : AppendTerm(f, s)
    \/ \E s \in Values : AppendStray(s)
    \/ \E n \in 1 .. MaxSize : Nest(n)
    \/ Translate
    \/ TranslateTerm

(***************************************************************************)
(* Span Scanner and Highlight-Safe Snippet Extractor                        *)
(* (search.services.index.highlighting: _end_safely, preview,              *)
(* collapse_hl_tags; exercised by tests/test_results.py).  Offsets count    *)
(* characters from 0; text[o + 1] is the character at offset o.            *)
(***************************************************************************)
Chars == {"a", "$", "\\", "<", ">", "/"}

\* The highlight tag pairs a caller passes: an HTML-like pair and a plain one.
TagPairs ==
    { [open |-> <<"<", "a", ">">>, close |-> <<"<", "/", ">">>],
      [open |-> <<"/", "a">>,      close |-> <<"a", "/">>] }

\* The tolerance preview passes to computeSafeEnd: small enough that a desired
\* end two characters before the end of a tag backs off (215 gives 213).
PreviewTolerance == 1

\* text[o : o + len(lit)] == lit
OccursAt(t, o, lit) ==
    /\ o + Len(lit) <= Len(t)
    /\ \A n \in 1 .. Len(lit) : t[o + n] = lit[n]

\* The offsets after o of the closers of a span opened at offset o.
TexClosers(t, o) ==
    {j \in (o + 1) .. (Len(t) - 1) : t[j + 1] = "$" /\ t[j] # "\\"}
TagClosers(t, o) ==
    {j \in (o + 1) .. (Len(t) - 1) : t[j + 1] = ">"}

\* findSpans from offset o on: <<start, end, kind>>, in order, non-overlapping.
\* An opener with no closer before the end of the text yields no span.
RECURSIVE FindSpans(_, _, _)
FindSpans(t, tags, o) ==
    IF o >= Len(t) THEN <<>>
    ELSE IF OccursAt(t, o, tags.open)
         THEN <<<<o, o + Len(tags.open), "highlight">>>>
              \o FindSpans(t, tags, o + Len(tags.open))
    ELSE IF OccursAt(t, o, tags.close)
         THEN <<<<o, o + Len(tags.close), "highlight">>>>
              \o FindSpans(t, tags, o + Len(tags.close))
    ELSE IF t[o + 1] = "$" /\ TexClosers(t, o) # {}
         THEN LET e == Min(TexClosers(t, o)) + 1 IN
              <<<<o, e, "tex">>>> \o FindSpans(t, tags, e)
    ELSE IF t[o + 1] = "<" /\ TagClosers(t, o) # {}
         THEN LET e == Min(TagClosers(t, o)) + 1 IN
              <<<<o, e, "tag">>>> \o FindSpans(t, tags, e)
    ELSE FindSpans(t, tags, o + 1)

Spans(t, tags) ==
    LET sp == FindSpans(t, tags, 0) IN {sp[n] : n \in 1 .. Len(sp)}

\* A cut that does not back off to the start of the span.
SnapTo_NoBackOff(sp, d, tolerance) == IF sp[2] - d <= tolerance THEN sp[2] ELSE d

\* A cut that always includes the whole span, however long the overrun.
SnapTo_IgnoreTolerance(sp, d, tolerance) == sp[2]

\* The offset to cut at when the desired end d lies inside the span sp.
SnapTo(sp, d, tolerance) == IF sp[2] - d <= tolerance THEN sp[2] ELSE sp[1]

\* computeSafeEnd(text, desiredEnd, startTag, endTag, tolerance)
ComputeSafeEnd(t, d, tags, tolerance) ==
    LET inside == {sp \in Spans(t, tags) : sp[1] < d /\ d < sp[2]}
    IN  IF inside # {}
        THEN SnapTo(CHOOSE sp \in inside : TRUE, d, tolerance)
        ELSE IF d < Len(t) THEN d ELSE Len(t)

\* count(lit in text), occurrences counted left to right without overlap.
RECURSIVE CountFrom(_, _, _)
CountFrom(t, lit, o) ==
    IF o + Len(lit) > Len(t) THEN 0
    ELSE IF OccursAt(t, o, lit) THEN 1 + CountFrom(t, lit, o + Len(lit))
    ELSE CountFrom(t, lit, o + 1)

\* tagBalance(text, startTag, endTag)
TagBalance(t, tags) == CountFrom(t, tags.open, 0) - CountFrom(t, tags.close, 0)

RECURSIVE Repeat(_, _)
Repeat(lit, n) == IF n <= 0 THEN <<>> ELSE lit \o Repeat(lit, n - 1)

\* The number of closing tags preview appends to the candidate.
Closers(candidate, tags) ==
    IF TagBalance(candidate, tags) > 0 THEN TagBalance(candidate, tags) ELSE 0

\* preview(text, fragmentSize, startTag, endTag): the cut, the closing tags
\* appended and the string returned.
PreviewOf(t, fragmentSize, tags) ==
    LET end       == ComputeSafeEnd(t, fragmentSize, tags, PreviewTolerance)
        candidate == SubSeq(t, 1, end)
        n         == Closers(candidate, tags)
    IN  [end |-> end, closers |-> n, out |-> candidate \o Repeat(tags.close, n)]

NoRequest == [op |-> "none", desired |-> 0, tolerance |-> 0, tags |-> <<>>]
NoAnswer == [end |-> 0, closers |-> 0, out |-> <<>>]

HighlightInit ==
    /\ text = <<>>
    /\ hpc = "build"
    /\ hreq = NoRequest
    /\ hres = NoAnswer

\* The highlighted field text of a hit, one character at a time.
AppendChar(c) ==
    /\ hpc = "build"
    /\ Len(text) < MaxLen
    /\ text' = Append(text, c)
    /\ UNCHANGED <<hpc, hreq, hres, tvars, fvars>>

EndSafely(d, tolerance, tags) ==
    /\ hpc = "build"
    /\ hpc' = "ended"
    /\ hreq' = [op |-> "end", desired |-> d, tolerance |-> tolerance, tags |-> tags]
    /\ hres' = [end |-> ComputeSafeEnd(text, d, tags, tolerance),
                closers |-> 0, out |-> <<>>]
    /\ UNCHANGED <<text, tvars, fvars>>

Preview(fragmentSize, tags) ==
    /\ hpc = "build"
    /\ hpc' = "previewed"
    /\ hreq' = [op |-> "preview", desired |-> fragmentSize,
                tolerance |-> PreviewTolerance, tags |-> tags]
    /\ hres' = PreviewOf(text, fragmentSize, tags)
    /\ UNCHANGED <<text, tvars, fvars>>

HighlightNext ==
    \/ \E c \in Chars : AppendChar(c)
    \/ \E d \in 0 .. (MaxLen + 1), tolerance \in 0 .. MaxTol, tags \in TagPairs :
          EndSafely(d, tolerance, tags)
    \/ \E fragmentSize \in 0 .. (MaxLen + 1), tags \in TagPairs :
          Preview(fragmentSize, tags)

(***************************************************************************)
(* fulltext.py: FulltextSession.__init__ and FulltextSession.retrieve,     *)
(* one statement of retrieve per action.                                   *)
(***************************************************************************)
\* FULLTEXT_ENDPOINT values, with and without the trailing slash.
Endpoints ==
    { [url |-> "https://fulltext.arxiv.org/fulltext", slash |-> TRUE],
      [url |-> "https://fulltext.example.org/fulltext", slash |-> FALSE] }

DocumentIds == {"", "1234.56787v3", "hep-th/9901001v1"}

\* HTTPStatus.OK
HTTPStatusOK == 200
StatusCodes == {HTTPStatusOK, 404, 500, 503}

\* What requests.get can raise (requests.exceptions).
TransportErrors == {"SSLError", "ConnectionError", "Timeout"}

\* Response bodies: a JSON object with Fulltext's fields, a JSON value that is
\* not an object (a list, a string, null), and text that is not JSON.
Bodies == {"fulltext_object", "json_not_object", "not_json"}

\* isinstance(exception of class cls, base): requests' exceptions derive from
\* RequestException, which derives from IOError.
IsInstance(cls, base) ==
    \/ cls = base
    \/ base = "IOError" /\ cls \in TransportErrors \cup {"RequestException"}

Returned(what) == [kind |-> "returned", cls |-> what]
Raised(cls) == [kind |-> "raised", cls |-> cls]
Pending == [kind |-> "pending", cls |-> ""]
NoReply == [status |-> 0, body |-> "", error |-> ""]
NoSession == [url |-> "", slash |-> FALSE]

FulltextInit ==
    /\ fpc = "new"
    /\ session = NoSession
    /\ docid = ""
    /\ reply = NoReply
    /\ data = ""
    /\ outcome = Pending
    /\ sent = <<>>

\* __init__: the endpoint is stored with a trailing slash.
NewSession(endpoint) ==
    /\ fpc = "new"
    /\ session' = [url |-> endpoint.url, slash |-> TRUE]
    /\ fpc' = "idle"
    /\ UNCHANGED <<docid, reply, data, outcome, sent, tvars, hvars>>

\* retrieve(document_id) is called.
Retrieve(document_id) ==
    /\ fpc = "idle"
    /\ docid' = document_id
    /\ fpc' = "check_id"
    /\ UNCHANGED <<session, reply, data, outcome, sent, tvars, hvars>>

\* if not document_id: raise ValueError(...)
CheckId ==
    /\ fpc = "check_id"
    /\ IF docid = ""
       THEN outcome' = Raised("ValueError") /\ fpc' = "done"
       ELSE outcome' = outcome /\ fpc' = "get"
    /\ UNCHANGED <<session, docid, reply, data, sent, tvars, hvars>>

\* response = requests.get(urljoin(self.endpoint, document_id)): a response
\* arrives, or the transport raises.
GetResponds(status, body) ==
    /\ fpc = "get"
    /\ sent' = Append(sent, <<session.url, "/", docid>>)
    /\ reply' = [status |-> status, body |-> body, error |-> ""]
    /\ fpc' = "check_status"
    /\ UNCHANGED <<session, docid, data, outcome, tvars, hvars>>

\* except requests.exceptions.SSLError as ex: raise IOError(...); any other
\* exception of requests.get propagates.
GetRaises(error) ==
    /\ fpc = "get"
    /\ sent' = Append(sent, <<session.url, "/", docid>>)
    /\ reply' = [status |-> 0, body |-> "", error |-> error]
    /\ outcome' = IF IsInstance(error, "SSLError") THEN Raised("IOError")
                  ELSE Raised(error)
    /\ fpc' = "done"
    /\ UNCHANGED <<session, docid, data, tvars, hvars>>

\* if response.status_code != HTTPStatus.OK: raise IOError(...)
CheckStatus ==
    /\ fpc = "check_status"
    /\ IF reply.status # HTTPStatusOK
       THEN outcome' = Raised("IOError") /\ fpc' = "done"
       ELSE outcome' = outcome /\ fpc' = "decode"
    /\ UNCHANGED <<session, docid, reply, data, sent, tvars, hvars>>

\* data = response.json(); except json.decoder.JSONDecodeError: raise IOError
Decode ==
    /\ fpc = "decode"
    /\ IF reply.body = "not_json"
       THEN outcome' = Raised("IOError") /\ fpc' = "done" /\ data' = data
       ELSE outcome' = outcome /\ fpc' = "construct" /\ data' = reply.body
    /\ UNCHANGED <<session, docid, reply, sent, tvars, hvars>>

\* return Fulltext(**data): ** takes a mapping; anything else is a TypeError.
Construct ==
    /\ fpc = "construct"
    /\ outcome' = IF data = "fulltext_object" THEN Returned("Fulltext")
                  ELSE Raised("TypeError")
    /\ fpc' = "done"
    /\ UNCHANGED <<session, docid, reply, data, sent, tvars, hvars>>

FulltextNext ==
    \/ \E endpoint \in Endpoints : NewSession(endpoint)
    \/ \E document_id \in DocumentIds : Retrieve(document_id)
    \/ CheckId
    \/ \E status \in StatusCodes, body \in Bodies : GetResponds(status, body)
    \/ \E error \in TransportErrors : GetRaises(error)
    \/ CheckStatus
    \/ Decode
    \/ Construct

(***************************************************************************)
(* The specifications.                                                     *)
(***************************************************************************)
Init == TranslatorInit /\ HighlightInit /\ FulltextInit

Next == TranslatorNext

Spec == Init /\ [][Next]_vars

SpecHighlight == Init /\ [][HighlightNext]_vars

SpecFulltext == Init /\ [][FulltextNext]_vars


(***************************************************************************)
(* Vocabulary of the properties of translate.                              *)
(***************************************************************************)
Done == pc = "done"
GeneralInput == Done /\ Len(input) > 0 /\ ~IsBaseCase(input)
BareTermInput == Done /\ IsTermItems(input)

\* A nested Phrase as the specification defines it: a tuple that starts with an
\* Operator or has three or more elements.
IsSpecNestedPhrase(t) ==
    /\ t.k = "tuple"
    /\ Len(t.items) >= 1
    /\ (t.items[1].k = "op" \/ Len(t.items) >= 3)

\* A nested Phrase as the dispatch of the loop recognises it.
IsCodeNestedPhrase(t) ==
    /\ t.k = "tuple"
    /\ Len(t.items) >= 1
    /\ (t.items[1].k = "op" \/ Len(t.items) = 3)

Recognised(t) == t.k = "op" \/ IsTerm(t) \/ IsSpecNestedPhrase(t)

\* The translation of one operand: leaf lookup for a Term, translate for a Phrase.
TranslateOperand(t) ==
    IF IsTerm(t) THEN TermToQuery(t.items) ELSE PhraseToQuery(t.items)

\* The Operator that governs the operand at position i: the most recent
\* Operator token before it, AND when there is none.
OperatorBefore(p, i) ==
    LET js == {j \in 1 .. (i - 1) : p[j].k = "op"}
    IN  IF js = {} THEN "AND" ELSE p[Max(js)].v

Conjunction(a, b) == QAnd(a, b)
Disjunction(a, b) == QOr(a, b)
Negation(a) == QNot(a)

ApplyOperator(o, acc, x) ==
    CASE o = "AND"    -> Conjunction(acc, x)
      [] o = "OR"     -> Disjunction(acc, x)
      [] o = "ANDNOT" -> Conjunction(acc, Negation(x))

\* The left-to-right fold over the operands of p from position i on.
RECURSIVE FoldOperands(_, _, _)
FoldOperands(p, i, acc) ==
    IF i > Len(p) THEN acc
    ELSE IF p[i].k # "tuple" THEN FoldOperands(p, i + 1, acc)
    ELSE LET tr == TranslateOperand(p[i]) IN
         IF IsError(tr) THEN tr
         ELSE FoldOperands(p, i + 1, ApplyOperator(OperatorBefore(p, i), acc, tr))

\* The documents a Query is evaluated on: every set of the leaves in play.
Leaves == {Leaf(f, s) : f \in TermFields \cap MappedFields, s \in Values}
Docs == SUBSET Leaves
Equivalent(a, b) ==
    /\ ~IsError(a) /\ ~IsError(b)
    /\ \A doc \in Docs : Eval(a, doc) <=> Eval(b, doc)

MappedTerm(t) == IsTerm(t) /\ t.items[1].v \in MappedFields

\* C1: a Phrase of the general case whose tokens are all Operators, Terms or
\* nested Phrases (a tuple led by an Operator, or of three or more elements)
\* translates to the left-to-right fold of its operands from the identity, each
\* operand combined by the most recent Operator before it (AND by default);
\* (A, OR, B, AND, C) gives AND(OR(A, B), C) and (A, ANDNOT, B) gives
\* AND(A, NOT(B)).
C1_FoldOverOperands ==
    (GeneralInput /\ \A i \in 1 .. Len(input) : Recognised(input[i]))
    => /\ result = FoldOperands(input, 1, MatchAll)
       /\ (/\ Len(input) = 5
           /\ MappedTerm(input[1]) /\ input[2] = Op("OR") /\ MappedTerm(input[3])
           /\ input[4] = Op("AND") /\ MappedTerm(input[5]))
          => Equivalent(result,
                        And(Or(TermToQuery(input[1].items), TermToQuery(input[3].items)),
                            TermToQuery(input[5].items)))
       /\ (/\ Len(input) = 3
           /\ MappedTerm(input[1]) /\ input[2] = Op("ANDNOT") /\ MappedTerm(input[3]))
          => result = And(TermToQuery(input[1].items), Not(TermToQuery(input[3].items)))

\* The fold of C1 for the Phrases whose nested tuples all have the shapes the
\* loop dispatches on (led by an Operator, or of exactly three elements).
FoldOverDispatchedOperands ==
    (GeneralInput /\ \A i \in 1 .. Len(input) :
        input[i].k = "op" \/ IsTerm(input[i]) \/ IsCodeNestedPhrase(input[i]))
    => result = FoldOperands(input, 1, MatchAll)

\* C2: a bare Term (f, v) translates to exactly the leaf builder_f(v): the
\* leaf translation itself, with no combinator or identity node around it.
C2_BareTermIsLeaf ==
    BareTermInput
    => /\ result = TermToQuery(input)
       /\ input[1].v \in MappedFields => result = Leaf(input[1].v, input[2].v)

C2_Witness ==
    BareTermInput /\ input[1].v \in MappedFields /\ result.q = "leaf"

\* The scan reaches position i: every tuple before it translated without an
\* error.
ReachedByScan(p, i) ==
    \A j \in 1 .. (i - 1) : p[j].k = "tuple" => ~IsError(TupleToQuery(p[j]))

\* C3: in the general-case scan every token that is not an Operator, not a
\* Term and not a nested Phrase makes translate fail with the malformed-phrase
\* error (ValueError) carrying that token; none is skipped or translated as
\* something else.
C3_UnrecognisedTokenRejected ==
    GeneralInput
    => \A i \in 1 .. Len(input) :
          (~Recognised(input[i]) /\ ReachedByScan(input, i)
             /\ \A j \in 1 .. (i - 1) : Recognised(input[j]))
          => result = Error("ValueError", input[i])

\* C4: every token that is a nested Phrase (led by an Operator, or of three or
\* more elements) is translated by a recursive call of translate, and none is
\* rejected.
C4_NestedPhraseRecursed ==
    GeneralInput
    => \A i \in 1 .. Len(input) :
          (IsSpecNestedPhrase(input[i]) /\ ReachedByScan(input, i))
          => /\ TupleToQuery(input[i]) = PhraseToQuery(input[i].items)
             /\ result # Error("ValueError", input[i])

\* Whether the tuple p holds, at any depth, a Term whose Field has no builder.
RECURSIVE ContainsUnmappedTerm(_)
ContainsUnmappedTerm(p) ==
    \/ IsTermItems(p) /\ p[1].v \notin MappedFields
    \/ /\ ~IsTermItems(p)
       /\ \E i \in 1 .. Len(p) : p[i].k = "tuple" /\ ContainsUnmappedTerm(p[i].items)

UnsupportedField(r) == IsError(r) /\ r.f = "KeyError"
MalformedPhrase(r) == IsError(r) /\ r.f = "ValueError"

\* C5 as stated: a Phrase that contains, at any depth, a Term whose Field has
\* no builder fails with the unsupported-field error whatever its other tokens
\* are, and a Term whose Field has a builder never fails with it.
C5_UnsupportedFieldAlways ==
    Done => /\ ContainsUnmappedTerm(input) => UnsupportedField(result)
            /\ (IsTermItems(input) /\ input[1].v \in MappedFields)
                  => ~UnsupportedField(result)

\* C5 amended: such a Phrase yields no Query: translate fails with the
\* unsupported-field error, or with the malformed-phrase error when the scan
\* first reaches a tuple it rejects; the unsupported-field error never names a
\* Field that has a builder, and a Term with such a Field translates.
C5_UnsupportedFieldOrMalformed ==
    Done => /\ ContainsUnmappedTerm(input)
                  => (UnsupportedField(result) \/ MalformedPhrase(result))
            /\ (IsTermItems(input) /\ input[1].v \notin MappedFields)
                  => result = Error("KeyError", input[1])
            /\ UnsupportedField(result)
                  => ~(result.args[1].k = "field" /\ result.args[1].v \in MappedFields)
            /\ (IsTermItems(input) /\ input[1].v \in MappedFields)
                  => ~IsError(result)

C5_Witness ==
    /\ Done /\ ContainsUnmappedTerm(input) /\ ~IsTermItems(input)
    /\ UnsupportedField(result)
    /\ \E i \in 1 .. Len(input) : MappedTerm(input[i])

AccumulatorAfter(p, i) == Scan(SubSeq(p, 1, i), 1, MatchAll, DefaultOperator)

\* The position of the first operand (tuple token) of p.
HasOperand(p) == \E i \in 1 .. Len(p) : p[i].k = "tuple"
FirstOperand(p) == Min({i \in 1 .. Len(p) : p[i].k = "tuple"})

\* C9: a first operand preceded by an explicit Operator is folded against the
\* identity: after OR the accumulator is match-everything, (ANDNOT, A)
\* translates to NOT(translate(A)); a first operand with no Operator before it
\* leaves the accumulator equal to its own translation.
C9_FirstOperandAgainstIdentity ==
    (GeneralInput /\ HasOperand(input))
    => LET i  == FirstOperand(input)
           tr == TupleToQuery(input[i])
           ops == {j \in 1 .. (i - 1) : input[j].k = "op"}
       IN  ~IsError(tr)
           => /\ (ops # {} /\ input[Max(ops)].v = "OR")
                    => AccumulatorAfter(input, i) = MatchAll
              /\ (ops # {} /\ input[Max(ops)].v = "ANDNOT")
                    => /\ AccumulatorAfter(input, i) = Negation(tr)
                       /\ \A doc \in Docs :
                             Eval(AccumulatorAfter(input, i), doc) <=> ~Eval(tr, doc)
              /\ (ops # {} /\ input[Max(ops)].v = "ANDNOT" /\ Len(input) = i)
                    => result = Negation(tr)
              /\ ops = {} => AccumulatorAfter(input, i) = tr
              /\ (ops = {} /\ Len(input) = i) => result = tr

C9_Witness ==
    /\ GeneralInput /\ Len(input) = 2
    /\ input[1] = Op("ANDNOT") /\ MappedTerm(input[2])
    /\ result = Not(TermToQuery(input[2].items))


(***************************************************************************)
(* Properties of the snippet extractor (SpecHighlight).                    *)
(***************************************************************************)
Ended == hpc = "ended"
Previewed == hpc = "previewed"

\* The spans of the text that hold the desired end strictly inside.
SpansAround(d) == {sp \in Spans(text, hreq.tags) : sp[1] < d /\ d < sp[2]}

\* The scanner's spans are well formed, ordered and do not overlap.
SpansOrdered ==
    hpc # "build"
    => LET sp == FindSpans(text, hreq.tags, 0) IN
       /\ \A n \in 1 .. Len(sp) : 0 <= sp[n][1] /\ sp[n][1] < sp[n][2] /\ sp[n][2] <= Len(text)
       /\ \A n \in 1 .. (Len(sp) - 1) : sp[n][2] <= sp[n + 1][1]

\* C6: computeSafeEnd returns an offset o, 0 <= o <= length(text), that is
\* strictly inside no span of the scanner; a desired end inside a span gives
\* the span's start, or its end when the end is within tolerance of the desired
\* end; a desired end inside no span gives min(desiredEnd, length(text)).
C6_SafeEndOutsideSpans ==
    Ended
    => LET o == hres.end
           d == hreq.desired
       IN  /\ 0 <= o /\ o <= Len(text)
           /\ \A sp \in Spans(text, hreq.tags) : ~(sp[1] < o /\ o < sp[2])
           /\ \A sp \in SpansAround(d) :
                 o = IF sp[2] - d <= hreq.tolerance THEN sp[2] ELSE sp[1]
           /\ SpansAround(d) = {} => o = IF d < Len(text) THEN d ELSE Len(text)

C6_Witness ==
    /\ Ended
    /\ \E sp \in SpansAround(hreq.desired) :
          sp[2] - hreq.desired > hreq.tolerance /\ hres.end = sp[1] /\ sp[1] > 0

\* C7: the string preview returns is at most fragmentSize + tolerance +
\* balance * length(endTag) long, balance being the positive tag balance of the
\* truncated candidate (0 when not positive); with no closing tag appended and
\* a cut that did not snap forward it is at most fragmentSize long.
C7_PreviewLengthBounded ==
    Previewed
    => LET fragmentSize == hreq.desired
           candidate == SubSeq(text, 1, hres.end)
           balance == IF TagBalance(candidate, hreq.tags) > 0
                      THEN TagBalance(candidate, hreq.tags) ELSE 0
       IN  /\ hres.closers = balance
           /\ Len(hres.out) <= fragmentSize + PreviewTolerance
                                 + balance * Len(hreq.tags.close)
           /\ (hres.closers = 0 /\ hres.end <= fragmentSize)
                 => Len(hres.out) <= fragmentSize

C7_Witness ==
    /\ Previewed
    /\ hres.closers > 0
    /\ hres.end > hreq.desired
    /\ Len(hres.out) = hreq.desired + PreviewTolerance + Len(hreq.tags.close)

(***************************************************************************)
(* Properties of the fulltext client (SpecFulltext).                       *)
(***************************************************************************)
Finished == fpc = "done"

\* A transport failure, a non-success status or an undecodable body.
Unavailable ==
    \/ reply.error # ""
    \/ reply.error = "" /\ reply.status # 0 /\ reply.status # HTTPStatusOK
    \/ reply.status = HTTPStatusOK /\ reply.body = "not_json"

ReturnedContent ==
    /\ outcome = Returned("Fulltext")
    /\ docid # "" /\ reply.status = HTTPStatusOK /\ reply.body # "not_json"

InvalidArgument ==
    /\ outcome.kind = "raised" /\ outcome.cls = "ValueError"
    /\ docid = "" /\ sent = <<>>

UnavailableError ==
    /\ outcome.kind = "raised" /\ IsInstance(outcome.cls, "IOError")
    /\ docid # "" /\ Unavailable

\* C10: every retrieve(document_id) ends by returning the content (non-empty
\* identifier, status 200, body decoded), by the invalid-argument error for an
\* empty identifier with no request issued, or by the unavailable (I/O) error
\* for a transport failure, a non-success status or an undecodable body; no
\* other error kind escapes.
C10_ThreeOutcomes ==
    Finished => (ReturnedContent \/ InvalidArgument \/ UnavailableError)

\* What retrieve does: the three outcomes of C10, and a TypeError when the
\* body of a 200 response decodes to a JSON value that is not an object.
FulltextOutcomes ==
    Finished
    => \/ ReturnedContent /\ data = "fulltext_object"
       \/ InvalidArgument
       \/ UnavailableError
       \/ /\ outcome = Raised("TypeError")
          /\ docid # "" /\ reply.status = HTTPStatusOK /\ data = "json_not_object"

=============================================================================
